---- MODULE Spec2Model ----
(***************************************************************************)
(* The power-market server of src/server.js as a state machine.           *)
(*                                                                         *)
(* State: the process-wide observation store (powerMarketData), the       *)
(* loaded flag (isDataLoaded), whether the listen callback has run, the   *)
(* two workbooks on disk, and the last request with the response the      *)
(* server gave to it.                                                      *)
(*                                                                         *)
(* Numbers. A JavaScript Number that carries a price is a fixed-point     *)
(* integer with Scale units per currency unit; a product with a decimal   *)
(* literal of the source (0.95, 1.1, 0.3 ...) is taken in hundredths or   *)
(* thousandths and rounded down.  Values that the source can turn into    *)
(* NaN or an infinity (a mean of nothing, Math.max of nothing) are        *)
(* records [k, v] with k in {"num", "nan", "-inf", "+inf"}.                *)
(* Instants are whole minutes since the epoch; Math.random() is a draw    *)
(* in thousandths, 0..999.                                                 *)
(***************************************************************************)
EXTENDS Integers, Sequences, FiniteSets, TLC

VARIABLES
    powerMarketData,  \* the store: a sequence of observations
    isDataLoaded,     \* TRUE once a loadExcelData has run to its end
    listening,        \* TRUE once the app.listen callback has run
    dataset,          \* which pair of workbooks the operator deploys
    fileState,        \* per workbook: "absent", "corrupt" or "ok"
    request,          \* the last request handled, with the clock and draws it read
    response,         \* the response given to it
    lastStatus        \* history: the previous status answer

vars == <<powerMarketData, isDataLoaded, listening, dataset, fileState,
          request, response, lastStatus>>

(***************************************************************************)
(* Bounds of the model.                                                    *)
(***************************************************************************)
Scale == 100
MaxHours == 2
MaxPreds == 2
SpikeRows == 60
BigRows == 1002

(***************************************************************************)
(* Program constants.                                                      *)
(***************************************************************************)
Interval == 15
WindowSize == 168
MaxRecords == 1000
BaseCapacity == 100
HighCapacity == 150
LowCapacity == 50

MinutesPerDay == 24 * 60
\* The zone of the server's local time (getHours, getDay, getMonth), in
\* minutes east of UTC.
TzOffset == 8 * 60
\* 2025-05-01 00:00 and 2025-06-01 00:00 local time.
MayFirst == 20209 * MinutesPerDay - TzOffset
JuneFirst == MayFirst + 31 * MinutesPerDay

(***************************************************************************)
(* JavaScript values.                                                      *)
(***************************************************************************)
\* A cell of a sheet row, or a field of a request body: absent (undefined),
\* a text that is no number and no date, or a number.  As a timestamp a
\* "num" cell stands for a value new Date() can parse, v being its instant.
Absent == [k |-> "absent", v |-> 0]
Text == [k |-> "text", v |-> 0]
N(x) == [k |-> "num", v |-> x]

Truthy(c) == c.k = "text" \/ (c.k = "num" /\ c.v # 0)

\* a || b || c
Or3(a, b, c) == IF Truthy(a) THEN a ELSE IF Truthy(b) THEN b ELSE c

\* parseFloat(c) || 0 : NaN (absent, text) and 0 both give 0.
ParseFloatOrZero(c) == IF c.k = "num" THEN c.v ELSE 0

\* new Date(c) is a valid date
ValidDate(c) == c.k = "num"

Num(x) == [k |-> "num", v |-> x]
NaN == [k |-> "nan", v |-> 0]
NegInf == [k |-> "-inf", v |-> 0]
PosInf == [k |-> "+inf", v |-> 0]

\* x * pct / 100, rounded down
MulPct(x, pct) == (x * pct) \div 100

RECURSIVE SumRange(_, _, _)
SumRange(s, lo, hi) ==
    IF lo > hi THEN 0
    ELSE IF lo = hi THEN s[lo]
    ELSE LET mid == (lo + hi) \div 2
         IN SumRange(s, lo, mid) + SumRange(s, mid + 1, hi)

\* array.reduce((sum, x) => sum + x, 0)
Sum(s) == SumRange(s, 1, Len(s))

RECURSIVE MaxRange(_, _, _)
MaxRange(s, lo, hi) ==
    IF lo = hi THEN s[lo]
    ELSE LET mid == (lo + hi) \div 2
             a == MaxRange(s, lo, mid)
             b == MaxRange(s, mid + 1, hi)
         IN IF a >= b THEN a ELSE b

RECURSIVE MinRange(_, _, _)
MinRange(s, lo, hi) ==
    IF lo = hi THEN s[lo]
    ELSE LET mid == (lo + hi) \div 2
             a == MinRange(s, lo, mid)
             b == MinRange(s, mid + 1, hi)
         IN IF a <= b THEN a ELSE b

\* sum / length : NaN for an empty array (0 / 0)
Mean(s) == IF Len(s) = 0 THEN NaN ELSE Num(Sum(s) \div Len(s))

Max0(x) == IF x > 0 THEN x ELSE 0
MaxOf(a, b) == IF a >= b THEN a ELSE b

\* array.slice(-n)
SliceLast(s, n) == IF Len(s) <= n THEN s ELSE SubSeq(s, Len(s) - n + 1, Len(s))

RECURSIVE SqrtSearch(_, _, _)
SqrtSearch(x, lo, hi) ==
    IF lo >= hi THEN lo
    ELSE LET mid == (lo + hi + 1) \div 2
         IN IF mid * mid <= x THEN SqrtSearch(x, mid, hi)
            ELSE SqrtSearch(x, lo, mid - 1)

\* the square root, rounded down
ISqrt(x) == SqrtSearch(x, 0, 46340)

(***************************************************************************)
(* Local calendar fields of an instant (Date.getHours, getDay, getMonth).  *)
(***************************************************************************)
LocalMinutes(t) == t + TzOffset
GetHours(t) == (LocalMinutes(t) \div 60) % 24
\* 0 is Sunday; the epoch day was a Thursday
GetDay(t) == ((LocalMinutes(t) \div MinutesPerDay) + 4) % 7
\* 0 is January (days-to-civil conversion of the proleptic Gregorian calendar)
GetMonth(t) ==
    LET z == (LocalMinutes(t) \div MinutesPerDay) + 719468
        era == z \div 146097
        doe == z - era * 146097
        yoe == (doe - doe \div 1460 + doe \div 36524 - doe \div 146096) \div 365
        doy == doe - (365 * yoe + yoe \div 4 - yoe \div 100)
        mp == (5 * doy + 2) \div 153
    IN (IF mp < 10 THEN mp + 3 ELSE mp - 9) - 1

(***************************************************************************)
(* The workbooks on disk.  A sheet row has, for each field, the three      *)
(* column labels the loader tries in turn.                                 *)
(***************************************************************************)
Files == {"may", "june"}
FileStates == {"absent", "corrupt", "ok"}

EmptyRow ==
    [ts_zh |-> Absent, ts_lc |-> Absent, ts_uc |-> Absent,
     price_zh |-> Absent, price_lc |-> Absent, price_uc |-> Absent,
     load_zh |-> Absent, load_lc |-> Absent, load_uc |-> Absent,
     demand_zh |-> Absent, demand_lc |-> Absent, demand_uc |-> Absent,
     supply_zh |-> Absent, supply_lc |-> Absent, supply_uc |-> Absent]

Row(ts, price) == [EmptyRow EXCEPT !.ts_zh = ts, !.price_zh = price]

DataSets == {"A", "Spike", "Big", "Neg"}

MayRows(d) ==
    CASE d = "A" ->
           << Row(N(MayFirst), N(100 * Scale)),
              Row(N(MayFirst + Interval), N(110 * Scale)),
              Row(N(MayFirst + 2 * Interval), N(90 * Scale)),
              [Row(N(MayFirst + 3 * Interval), N(105 * Scale))
                  EXCEPT !.load_lc = N(7), !.demand_uc = N(8), !.supply_zh = N(9)] >>
      [] d = "Spike" ->
           [i \in 1..SpikeRows |->
              Row(N(MayFirst + (i - 1) * Interval),
                  IF i = SpikeRows THEN N(10 * Scale) ELSE N(0))]
      [] d = "Big" ->
           [i \in 1..BigRows |->
              Row(N(MayFirst + (i - 1) * Interval), N((10 + (i % 5)) * Scale))]
      [] d = "Neg" ->
           << Row(N(MayFirst), N(-50 * Scale)),
              Row(N(MayFirst + Interval), N(-30 * Scale)) >>

JuneRows(d) ==
    CASE d = "A" ->
           << Row(Absent, N(50 * Scale)),
              Row(N(JuneFirst), Text),
              Row(Text, N(95 * Scale)),
              [EmptyRow EXCEPT !.ts_lc = N(JuneFirst + Interval),
                               !.price_uc = N(120 * Scale)],
              Row(N(JuneFirst + 400 * MinutesPerDay), N(80 * Scale)) >>
      [] d = "Spike" -> << Row(N(JuneFirst), N(0)) >>
      [] d = "Big" ->
           << Row(N(MayFirst - 30 * MinutesPerDay), N(20 * Scale)),
              Row(N(MayFirst - 29 * MinutesPerDay), N(21 * Scale)) >>
      [] d = "Neg" -> << Row(N(JuneFirst), N(-40 * Scale)) >>

\* XLSX.utils.sheet_to_json of the first sheet of a readable workbook
SheetRows(f, d) == IF f = "may" THEN MayRows(d) ELSE JuneRows(d)

(***************************************************************************)
(* loadExcelData                                                           *)
(***************************************************************************)
\* the row => ({...}) of the map
Normalize(row) ==
    [timestamp |-> Or3(row.ts_zh, row.ts_lc, row.ts_uc),
     price |-> ParseFloatOrZero(Or3(row.price_zh, row.price_lc, row.price_uc)),
     load |-> ParseFloatOrZero(Or3(row.load_zh, row.load_lc, row.load_uc)),
     demand |-> ParseFloatOrZero(Or3(row.demand_zh, row.demand_lc, row.demand_uc)),
     supply |-> ParseFloatOrZero(Or3(row.supply_zh, row.supply_lc, row.supply_uc))]

\* item.timestamp && !isNaN(item.price): the price is never NaN here, since
\* "parseFloat(..) || 0" has already replaced NaN by 0.
Retained(item) == Truthy(item.timestamp)

\* The rows one workbook adds to allData: none when it does not exist.
RowsOf(f, fs, d) == IF fs[f] = "ok" THEN SheetRows(f, d) ELSE << >>

\* LoadThrows with the tests of fs.existsSync lost: reading a workbook that
\* does not exist throws too.
LoadThrowsMut(fs) == fs["may"] # "ok" \/ fs["june"] # "ok"

\* XLSX.readFile throws on a workbook that exists and cannot be parsed.
LoadThrows(fs) == fs["may"] = "corrupt" \/ fs["june"] = "corrupt"

NormalizeAll(rows) == [i \in 1..Len(rows) |-> Normalize(rows[i])]

\* The store and the flag after loadExcelData() called with store `data` and
\* flag `loaded`.
LoadExcelData(data, loaded, fs, d) ==
    IF LoadThrows(fs)
    THEN [data |-> data, loaded |-> loaded, ok |-> FALSE]
    ELSE [data |-> SelectSeq(NormalizeAll(RowsOf("may", fs, d) \o RowsOf("june", fs, d)),
                             Retained),
          loaded |-> TRUE, ok |-> TRUE]

\* NeedsLoad with the test of the flag lost: every call loads again.
NeedsLoadMut(loaded) == TRUE

\* if (!isDataLoaded) loadExcelData(), at the head of the two GET handlers
NeedsLoad(loaded) == ~loaded

LazyLoad(data, loaded, fs, d) ==
    IF NeedsLoad(loaded) THEN LoadExcelData(data, loaded, fs, d)
    ELSE [data |-> data, loaded |-> loaded, ok |-> TRUE]

(***************************************************************************)
(* The clock the handlers read (new Date()).                               *)
(***************************************************************************)
Clock == { MayFirst + 5 * MinutesPerDay,
           MayFirst + 11 * MinutesPerDay,
           JuneFirst + 3 * Interval }

NoRequest == [op |-> "none"]
NoResponse == [op |-> "none"]
\* lastStatus: whether a status answer has been given with no loadExcelData()
\* run by another handler since, the flag as that call left it, the summary it
\* returned, and whether that call itself came after such an answer given
\* with the flag set.
NoStatus == [seen |-> FALSE, loaded |-> FALSE, database |-> << >>, again |-> FALSE]

(***************************************************************************)
(* Initial state: the module has been evaluated, nothing is loaded.        *)
(***************************************************************************)
InitWith(D) ==
    /\ powerMarketData = << >>
    /\ isDataLoaded = FALSE
    /\ listening = FALSE
    /\ dataset \in D
    /\ fileState \in [Files -> FileStates]
    /\ request = NoRequest
    /\ response = NoResponse
    /\ lastStatus = NoStatus

Init == InitWith({"A", "Spike"})

(***************************************************************************)
(* app.listen callback: the load at start-up.                              *)
(***************************************************************************)
Listen ==
    /\ ~listening
    /\ listening' = TRUE
    /\ LET r == LoadExcelData(powerMarketData, isDataLoaded, fileState, dataset)
       IN /\ powerMarketData' = r.data
          /\ isDataLoaded' = r.loaded
    /\ UNCHANGED <<dataset, fileState, request, response, lastStatus>>

(***************************************************************************)
(* The environment: the operator adds, removes, damages or repairs a       *)
(* workbook.                                                               *)
(***************************************************************************)
WriteFile ==
    /\ \E f \in Files, s \in FileStates :
          /\ fileState[f] # s
          /\ fileState' = [fileState EXCEPT ![f] = s]
    /\ UNCHANGED <<powerMarketData, isDataLoaded, listening, dataset,
                   request, response, lastStatus>>

(***************************************************************************)
(* A handler runs to its end before the next request is taken (one thread  *)
(* of control); Deliver is the response leaving the server.                *)
(***************************************************************************)
Idle == listening /\ response = NoResponse

Deliver ==
    /\ response # NoResponse
    /\ request' = NoRequest
    /\ response' = NoResponse
    /\ UNCHANGED <<powerMarketData, isDataLoaded, listening, dataset,
                   fileState, lastStatus>>

(***************************************************************************)
(* GET /api/database/status                                                *)
(***************************************************************************)
\* `2025-${String(date.getMonth() + 1).padStart(2, '0')}` as the month
\* number; 0 stands for the key "2025-NaN" of an unparseable timestamp.
MonthKey(item) ==
    IF ValidDate(item.timestamp) THEN GetMonth(item.timestamp.v) + 1 ELSE 0

MonthlyDistribution(data) ==
    LET keys == {MonthKey(data[i]) : i \in 1..Len(data)}
    IN [m \in keys |-> Cardinality({i \in 1..Len(data) : MonthKey(data[i]) = m})]

\* null (the empty sequence) for an empty store, else the first and the last
\* timestamp in store order
TimeRange(data) ==
    IF Len(data) > 0 THEN << data[1].timestamp, data[Len(data)].timestamp >>
    ELSE << >>

Database(data) ==
    [realDataRecords |-> Len(data),
     monthlyDistribution |-> MonthlyDistribution(data),
     timeRange |-> TimeRange(data)]

Status ==
    /\ Idle
    /\ \E now \in Clock :
         LET r == LazyLoad(powerMarketData, isDataLoaded, fileState, dataset)
         IN /\ powerMarketData' = r.data
            /\ isDataLoaded' = r.loaded
            /\ request' = [op |-> "status", now |-> now]
            /\ response' = [op |-> "status", status |-> 200, success |-> TRUE,
                            database |-> Database(r.data), timestamp |-> now]
            /\ lastStatus' = [seen |-> TRUE, loaded |-> r.loaded,
                              database |-> Database(r.data),
                              again |-> lastStatus.seen /\ lastStatus.loaded]
    /\ UNCHANGED <<listening, dataset, fileState>>

(***************************************************************************)
(* GET /api/health                                                         *)
(***************************************************************************)
Health ==
    /\ Idle
    /\ \E now \in Clock :
         /\ request' = [op |-> "health", now |-> now]
         /\ response' = [op |-> "health", status |-> 200, timestamp |-> now,
                         dataLoaded |-> isDataLoaded,
                         dataRecords |-> Len(powerMarketData)]
    /\ UNCHANGED <<powerMarketData, isDataLoaded, listening, dataset,
                   fileState, lastStatus>>

(***************************************************************************)
(* GET /api/historical-prices                                              *)
(***************************************************************************)
Selectors == {"absent", "1d", "7d", "30d", "all", "other"}

\* const { timeRange = '1d' } = req.query
SelectorOrDefault(sel) == IF sel = "absent" THEN "1d" ELSE sel

\* the switch: the start of the range, in minutes
StartTime(sel, now) ==
    CASE sel = "1d" -> now - MinutesPerDay
      [] sel = "7d" -> now - 7 * MinutesPerDay
      [] sel = "30d" -> now - 30 * MinutesPerDay
      [] OTHER -> 0

\* item => new Date(item.timestamp) >= startTime : false for an invalid date
InRange(item, start) == ValidDate(item.timestamp) /\ item.timestamp.v >= start

FilterByRange(data, sel, now) ==
    IF sel # "all"
    THEN LET start == StartTime(sel, now)
             keep(item) == InRange(item, start)
         IN SelectSeq(data, keep)
    ELSE data

\* CapRecords keeping the first records instead of the last: slice(0, 1000).
CapRecordsMut(data) ==
    IF Len(data) > MaxRecords THEN SubSeq(data, 1, MaxRecords) ELSE data

\* if (filteredData.length > 1000) filteredData = filteredData.slice(-1000)
CapRecords(data) == IF Len(data) > MaxRecords THEN SliceLast(data, MaxRecords) ELSE data

Prices(data) == [i \in 1..Len(data) |-> data[i].price]

Statistics(data) ==
    LET prices == Prices(data)
    IN [average_price |-> Mean(prices),
        max_price |-> IF Len(prices) = 0 THEN NegInf
                      ELSE Num(MaxRange(prices, 1, Len(prices))),
        min_price |-> IF Len(prices) = 0 THEN PosInf
                      ELSE Num(MinRange(prices, 1, Len(prices))),
        total_records |-> Len(data)]

Historical ==
    /\ Idle
    /\ \E now \in Clock, sel \in Selectors, incl \in BOOLEAN :
         LET r == LazyLoad(powerMarketData, isDataLoaded, fileState, dataset)
             timeRange == SelectorOrDefault(sel)
             filteredData == CapRecords(FilterByRange(r.data, timeRange, now))
         IN /\ powerMarketData' = r.data
            /\ isDataLoaded' = r.loaded
            /\ request' = [op |-> "historical", now |-> now, timeRange |-> sel,
                           includePredictions |-> incl]
            /\ response' = [op |-> "historical", status |-> 200, success |-> TRUE,
                            data |-> filteredData,
                            statistics |-> Statistics(filteredData),
                            timeRange |-> timeRange,
                            includePredictions |-> incl]
            /\ lastStatus' = IF NeedsLoad(isDataLoaded) THEN NoStatus ELSE lastStatus
    /\ UNCHANGED <<listening, dataset, fileState>>

(***************************************************************************)
(* runPredictionAlgorithm                                                  *)
(***************************************************************************)
\* NoData without the test of the length.
NoDataMut(loaded, data) == ~loaded

\* if (!isDataLoaded || powerMarketData.length === 0) throw
NoData(loaded, data) == ~loaded \/ Len(data) = 0

\* math.std of a non-empty array: the unbiased estimator, 0 for one value
Std(xs) ==
    LET n == Len(xs)
        m == Sum(xs) \div n
        sq == [i \in 1..n |-> (xs[i] - m) * (xs[i] - m)]
    IN IF n = 1 THEN 0 ELSE ISqrt(Sum(sq) \div (n - 1))

\* TimeFactor with the factor of the evening band in the morning band too.
TimeFactorMut(t) ==
    LET hourOfDay == GetHours(t)
        dayOfWeek == GetDay(t)
        f0 == 1000
        f1 == IF hourOfDay >= 8 /\ hourOfDay <= 10 THEN 1300 ELSE f0
        f2 == IF hourOfDay >= 18 /\ hourOfDay <= 20 THEN 1300 ELSE f1
    IN IF dayOfWeek = 0 \/ dayOfWeek = 6 THEN MulPct(f2, 90) ELSE f2

\* timeFactor, in thousandths
TimeFactor(t) ==
    LET hourOfDay == GetHours(t)
        dayOfWeek == GetDay(t)
        f0 == 1000
        f1 == IF hourOfDay >= 8 /\ hourOfDay <= 10 THEN 1200 ELSE f0
        f2 == IF hourOfDay >= 18 /\ hourOfDay <= 20 THEN 1300 ELSE f1
    IN IF dayOfWeek = 0 \/ dayOfWeek = 6 THEN MulPct(f2, 90) ELSE f2

\* PointTime counting the steps from 1.
PointTimeMut(base, i) == base + (i + 1) * Interval

\* baseDate.getTime() + i * 15 * 60 * 1000, i from 0
PointTime(base, i) == base + i * Interval

\* (Math.random() - 0.5) * priceStd * 0.3, for a draw in thousandths
Noise(draw, priceStd) == ((draw - 500) * priceStd * 3) \div 10000

\* priceStd * (1 - confidence_level) * 2, the level in thousandths
ConfidenceRange(priceStd, level) == (priceStd * (1000 - level) * 2) \div 1000

\* the object pushed for step i (from 0)
ForecastPoint(base, i, avgPrice, priceStd, level, draw) ==
    LET timestamp == PointTime(base, i)
        predictedPrice == (avgPrice * TimeFactor(timestamp)) \div 1000
                          + Noise(draw, priceStd)
        confidenceRange == ConfidenceRange(priceStd, level)
    IN [timestamp |-> timestamp,
        predicted_price |-> Max0(predictedPrice),
        confidence_lower |-> Max0(predictedPrice - confidenceRange),
        confidence_upper |-> predictedPrice + confidenceRange,
        confidence_level |-> level]

\* the number of turns of "for (let i = 0; i < prediction_hours; i++)"
Turns(hours) == Max0(hours)

Thrown(msg) == [threw |-> TRUE, error |-> msg]

\* The value runPredictionAlgorithm returns, or what it throws.  noise[i] is
\* the draw of turn i, acc the draw of the accuracy score.
RunPrediction(data, loaded, config, noise, acc) ==
    IF NoData(loaded, data) THEN Thrown("DataUnavailable")
    ELSE IF Len(data) = 0 THEN Thrown("SyntaxError")  \* math.std of an empty array
    ELSE
      LET recentData == SliceLast(data, WindowSize)
          prices == Prices(recentData)
          avgPrice == Sum(prices) \div Len(prices)
          priceStd == Std(prices)
          n == Turns(config.prediction_hours)
          level == config.confidence_level
          predictions ==
              [i \in 1..n |->
                  ForecastPoint(config.prediction_date.v, i - 1, avgPrice,
                                priceStd, level, noise[i])]
          predicted == [i \in 1..n |-> predictions[i].predicted_price]
      IN IF n > 0 /\ ~ValidDate(config.prediction_date)
         THEN Thrown("RangeError")  \* toISOString of an invalid date
         ELSE [threw |-> FALSE,
               success |-> TRUE,
               predictions |-> predictions,
               statistics |-> [average_price |-> Mean(predicted),
                               total_points |-> n,
                               confidence_level |-> level,
                               real_data_points |-> Len(data)],
               accuracy |-> 850 + acc \div 10]

(***************************************************************************)
(* POST /api/predict                                                       *)
(***************************************************************************)
PredictConfigs(Dates, Hours, Levels) ==
    [prediction_date : Dates, prediction_hours : Hours, confidence_level : Levels]

\* Thursday 2025-05-01 08:30, Saturday 2025-05-03 19:45, Monday 2025-05-05 13:00
WeekdayMorning == MayFirst + 8 * 60 + 30
WeekendEvening == MayFirst + 2 * MinutesPerDay + 19 * 60 + 45
WeekdayNoon == MayFirst + 4 * MinutesPerDay + 13 * 60
\* Thursday 2025-05-01 10:45 and 20:45: the last quarter hours of the two bands
WeekdayLateMorning == MayFirst + 10 * 60 + 45
WeekdayLateEvening == MayFirst + 20 * 60 + 45

AbsentConfig ==
    [prediction_date |-> Absent, prediction_hours |-> 0, confidence_level |-> 0]

\* The draws of Math.random() a successful run consumes.
DrawsFor(config, Draws) ==
    IF NoData(isDataLoaded, powerMarketData)
       \/ (Turns(config.prediction_hours) > 0 /\ ~ValidDate(config.prediction_date))
    THEN { [noise |-> << >>, acc |-> 0] }
    ELSE [noise : [1..Turns(config.prediction_hours) -> Draws], acc : Draws]

PredictReq(Configs, Draws) ==
    /\ Idle
    /\ \/ \* if (!config) return res.status(400)
          /\ request' = [op |-> "predict", hasConfig |-> FALSE, config |-> AbsentConfig,
                         noise |-> << >>, acc |-> 0]
          /\ response' = [op |-> "predict", status |-> 400, success |-> FALSE,
                          error |-> "MissingConfig"]
       \/ \E config \in Configs :
            \E d \in DrawsFor(config, Draws) :
              LET r == RunPrediction(powerMarketData, isDataLoaded, config,
                                     d.noise, d.acc)
              IN /\ request' = [op |-> "predict", hasConfig |-> TRUE,
                                config |-> config, noise |-> d.noise, acc |-> d.acc]
                 /\ response' =
                      IF r.threw
                      THEN [op |-> "predict", status |-> 500, success |-> FALSE,
                            error |-> r.error]
                      ELSE [op |-> "predict", status |-> 200, success |-> TRUE,
                            predictions |-> r.predictions,
                            statistics |-> r.statistics,
                            accuracy |-> r.accuracy]
    /\ UNCHANGED <<powerMarketData, isDataLoaded, listening, dataset,
                   fileState, lastStatus>>

(***************************************************************************)
(* runOptimizationAlgorithm                                                *)
(***************************************************************************)
\* Decide with >= for > in the first test.
DecideMut(predictedPrice, generationCost) ==
    IF predictedPrice * 10 >= generationCost * 15
    THEN [bid_price |-> MulPct(predictedPrice, 95), bid_capacity |-> HighCapacity]
    ELSE IF predictedPrice * 10 < generationCost * 12
    THEN [bid_price |-> MaxOf(MulPct(generationCost, 110), MulPct(predictedPrice, 90)),
          bid_capacity |-> LowCapacity]
    ELSE [bid_price |-> predictedPrice, bid_capacity |-> BaseCapacity]

\* the strategy adjustment for one predicted price
Decide(predictedPrice, generationCost) ==
    IF predictedPrice * 10 > generationCost * 15
    THEN [bid_price |-> MulPct(predictedPrice, 95), bid_capacity |-> HighCapacity]
    ELSE IF predictedPrice * 10 < generationCost * 12
    THEN [bid_price |-> MaxOf(MulPct(generationCost, 110), MulPct(predictedPrice, 90)),
          bid_capacity |-> LowCapacity]
    ELSE [bid_price |-> predictedPrice, bid_capacity |-> BaseCapacity]

\* ExpectedProfit without the parentheses.
ExpectedProfitMut(bidPrice, generationCost, bidCapacity) ==
    bidPrice - generationCost * bidCapacity

\* (bidPrice - generationCost) * bidCapacity
ExpectedProfit(bidPrice, generationCost, bidCapacity) ==
    (bidPrice - generationCost) * bidCapacity

\* the object pushed on biddingSchedule for one prediction
Bid(pred, generationCost) ==
    LET d == Decide(pred.predicted_price, generationCost)
    IN [time_period |-> pred.timestamp,
        bid_price |-> d.bid_price,
        bid_capacity |-> d.bid_capacity,
        expected_profit |-> ExpectedProfit(d.bid_price, generationCost, d.bid_capacity),
        predicted_price |-> pred.predicted_price]

\* totalProfit += expectedProfit, over the schedule
TotalProfit(schedule) == Sum([i \in 1..Len(schedule) |-> schedule[i].expected_profit])

\* RiskLevel with >= for > in the first test.
RiskLevelMut(schedule, predictions) ==
    LET bids == Sum([i \in 1..Len(schedule) |-> schedule[i].bid_price])
        preds == Sum([i \in 1..Len(predictions) |-> predictions[i].predicted_price])
    IN IF Len(schedule) = 0 THEN "LOW"
       ELSE IF bids * 100 >= preds * 110 THEN "HIGH"
       ELSE IF bids * 100 > preds * 105 THEN "MEDIUM"
       ELSE "LOW"

\* The comparisons are of the two means; with the same positive count on
\* both sides they are the comparisons of the sums.  A mean of nothing is
\* NaN, and every comparison with NaN is false.
RiskLevel(schedule, predictions) ==
    LET bids == Sum([i \in 1..Len(schedule) |-> schedule[i].bid_price])
        preds == Sum([i \in 1..Len(predictions) |-> predictions[i].predicted_price])
    IN IF Len(schedule) = 0 THEN "LOW"
       ELSE IF bids * 100 > preds * 110 THEN "HIGH"
       ELSE IF bids * 100 > preds * 105 THEN "MEDIUM"
       ELSE "LOW"

Strategy(totalProfit) == IF totalProfit > 0 THEN "AGGRESSIVE" ELSE "CONSERVATIVE"

RunOptimization(predictions, config) ==
    IF config.kind = "noCost" THEN Thrown("TypeError")  \* destructuring undefined
    ELSE
      LET biddingSchedule ==
              [i \in 1..Len(predictions) |-> Bid(predictions[i], config.generationCost)]
          totalProfit == TotalProfit(biddingSchedule)
          caps == [i \in 1..Len(biddingSchedule) |->
                      biddingSchedule[i].bid_capacity * Scale]
      IN [threw |-> FALSE,
          success |-> TRUE,
          expected_profit |-> totalProfit,
          optimal_capacity |-> Mean(caps),
          strategy |-> Strategy(totalProfit),
          risk_level |-> RiskLevel(biddingSchedule, predictions),
          bidding_schedule |-> biddingSchedule,
          cost_parameters |-> config]

(***************************************************************************)
(* POST /api/optimize                                                      *)
(***************************************************************************)
\* config of the body: absent, without cost_params, or with them
OptConfigs(Costs) ==
    { [kind |-> "absent", generationCost |-> 0, upwardCost |-> 0, downwardCost |-> 0],
      [kind |-> "noCost", generationCost |-> 0, upwardCost |-> 0, downwardCost |-> 0] }
    \cup { [kind |-> "ok", generationCost |-> g, upwardCost |-> 5 * Scale,
            downwardCost |-> 3 * Scale] : g \in Costs }

\* the forecast sequences of the body: up to MaxPreds points with prices of P
PredSeqs(P) ==
    UNION { [1..n -> P] : n \in 0..MaxPreds }

PointsOf(ps) ==
    [i \in 1..Len(ps) |->
        [timestamp |-> PointTime(WeekdayMorning, i - 1), predicted_price |-> ps[i]]]

OptimizeReq(P, Costs) ==
    /\ Idle
    /\ \E hasPredictions \in BOOLEAN, config \in OptConfigs(Costs) :
         \E ps \in (IF hasPredictions THEN PredSeqs(P) ELSE { << >> }) :
            LET predictions == PointsOf(ps)
                r == RunOptimization(predictions, config)
            IN /\ request' = [op |-> "optimize", hasPredictions |-> hasPredictions,
                              predictions |-> predictions, config |-> config]
               /\ response' =
                    IF ~hasPredictions \/ config.kind = "absent"
                    THEN [op |-> "optimize", status |-> 400, success |-> FALSE,
                          error |-> "MissingInput"]
                    ELSE IF r.threw
                    THEN [op |-> "optimize", status |-> 500, success |-> FALSE,
                          error |-> r.error]
                    ELSE [op |-> "optimize", status |-> 200, success |-> TRUE,
                          expected_profit |-> r.expected_profit,
                          optimal_capacity |-> r.optimal_capacity,
                          strategy |-> r.strategy,
                          risk_level |-> r.risk_level,
                          bidding_schedule |-> r.bidding_schedule,
                          cost_parameters |-> r.cost_parameters]
    /\ UNCHANGED <<powerMarketData, isDataLoaded, listening, dataset,
                   fileState, lastStatus>>

(***************************************************************************)
(* The inputs of the requests.                                             *)
(***************************************************************************)
Draws == {0, 500, 999}
Dates == {Absent, N(WeekdayMorning), N(WeekendEvening), N(WeekdayNoon),
          N(WeekdayLateMorning), N(WeekdayLateEvening)}
Hours == -1..MaxHours
Levels == {0, 500, 950, 990, 1000, 1500}
Costs == {0, 100 * Scale, 105 * Scale}
PredictedPrices ==
    {0, 100 * Scale, 102 * Scale, 110 * Scale,
     120 * Scale - 1, 120 * Scale, 121 * Scale + Scale \div 2,
     150 * Scale, 150 * Scale + 1, 200 * Scale}

\* every forecast request
PredictAny == PredictReq(PredictConfigs(Dates, Hours, Levels), Draws)
\* every optimization request
OptimizeAny == OptimizeReq(PredictedPrices, Costs)

\* The requests of the whole server: one draw, one level, the default
\* horizon of 0 or 1 points.
Predict ==
    PredictReq(PredictConfigs({Absent, N(WeekdayMorning)}, 0..1, {950}), {0})
Optimize == OptimizeReq({120 * Scale - 1, 200 * Scale}, {100 * Scale})

Next ==
    Listen \/ WriteFile \/ Status \/ Historical \/ Predict \/ Optimize \/ Health
    \/ Deliver

Spec == Init /\ [][Next]_vars

\* The forecast engine under every forecast request.
NextForecast == Listen \/ PredictAny \/ Deliver
SpecForecast == Init /\ [][NextForecast]_vars

\* The forecast engine over workbooks with prices of either sign.
InitSigned == InitWith({"A", "Neg"})
SpecSigned == InitSigned /\ [][NextForecast]_vars

\* The bid optimizer under every optimization request.
NextOptimizer == Listen \/ OptimizeAny \/ Deliver
SpecOptimizer == Init /\ [][NextOptimizer]_vars

\* The observation store and its queries, with the workbooks of every size.
InitStore == InitWith({"A", "Big"})
NextStore == Listen \/ WriteFile \/ Status \/ Historical \/ Health \/ Deliver
SpecStore == InitStore /\ [][NextStore]_vars

(***************************************************************************)
(* Properties.                                                             *)
(***************************************************************************)
IsForecast == response.op = "predict" /\ response.status = 200
IsSchedule == response.op = "optimize" /\ response.status = 200
IsHistory == response.op = "historical" /\ response.status = 200

\* C1: every returned forecast point of a request with a confidence level in
\* (0,1) has confidence_lower <= predicted_price <= confidence_upper, and
\* both bounds are >= 0.
C1_BoundsBracketPrice ==
    (IsForecast /\ request.config.confidence_level \in 1..999) =>
        \A i \in 1..Len(response.predictions) :
            LET p == response.predictions[i]
            IN /\ p.confidence_lower <= p.predicted_price
               /\ p.predicted_price <= p.confidence_upper
               /\ p.confidence_lower >= 0
               /\ p.confidence_upper >= 0

\* C2: with a non-empty store, a forecast request with a valid start S and a
\* horizon H >= 1 is answered with exactly H points, the i-th (from 0) at
\* S + i * 15 minutes.
C2_HorizonPoints ==
    (/\ request.op = "predict"
     /\ request.hasConfig
     /\ Len(powerMarketData) > 0
     /\ ValidDate(request.config.prediction_date)
     /\ request.config.prediction_hours >= 1) =>
        /\ IsForecast
        /\ Len(response.predictions) = request.config.prediction_hours
        /\ \A i \in 1..Len(response.predictions) :
              response.predictions[i].timestamp
                  = request.config.prediction_date.v + (i - 1) * 15
        /\ \A i \in 1..(Len(response.predictions) - 1) :
              response.predictions[i].timestamp < response.predictions[i + 1].timestamp

C2_Witness ==
    /\ IsForecast
    /\ Len(powerMarketData) > 0
    /\ Len(response.predictions) = MaxHours
    /\ response.predictions[MaxHours].timestamp > response.predictions[1].timestamp

\* C3: a forecast request that carries a config and finds the store unloaded
\* or empty fails with the data-unavailable error and returns no points.
C3_EmptyStoreFails ==
    (/\ request.op = "predict"
     /\ request.hasConfig
     /\ (~isDataLoaded \/ Len(powerMarketData) = 0)) =>
        /\ response.status = 500
        /\ ~response.success
        /\ response.error = "DataUnavailable"
        /\ "predictions" \notin DOMAIN response

C3_Witness ==
    /\ request.op = "predict"
    /\ request.hasConfig
    /\ isDataLoaded
    /\ Len(powerMarketData) = 0
    /\ response.status = 500
    /\ lastStatus.seen

\* C4: a forecast request whose horizon is <= 0 or whose confidence level is
\* outside (0,1) is not answered with a success.
C4_InvalidRequestRejected ==
    (/\ request.op = "predict"
     /\ request.hasConfig
     /\ (\/ request.config.prediction_hours <= 0
         \/ request.config.confidence_level \notin 1..999)) =>
        ~response.success

\* C5: an optimization request with a forecast sequence of length 0 is not
\* answered with a success.
C5_EmptyForecastRejected ==
    (/\ request.op = "optimize"
     /\ request.hasPredictions
     /\ Len(request.predictions) = 0) =>
        ~response.success

\* C6: the decision for a period with predicted price p under generation cost
\* g is (150, 0.95 p) if p > 1.5 g, else (50, max(1.1 g, 0.9 p)) if p < 1.2 g,
\* else (100, p).
C6_DecisionRule ==
    IsSchedule =>
        /\ Len(response.bidding_schedule) = Len(request.predictions)
        /\ \A i \in 1..Len(response.bidding_schedule) :
              LET p == request.predictions[i].predicted_price
                  g == request.config.generationCost
                  b == response.bidding_schedule[i]
                  low == IF (g * 110) \div 100 >= (p * 90) \div 100
                         THEN (g * 110) \div 100 ELSE (p * 90) \div 100
              IN /\ b.predicted_price = p
                 /\ IF 10 * p > 15 * g
                    THEN b.bid_capacity = 150 /\ b.bid_price = (p * 95) \div 100
                    ELSE IF 10 * p < 12 * g
                    THEN b.bid_capacity = 50 /\ b.bid_price = low
                    ELSE b.bid_capacity = 100 /\ b.bid_price = p

C6_Witness ==
    /\ IsSchedule
    /\ request.config.generationCost > 0
    /\ \E i, j \in 1..Len(response.bidding_schedule) :
          /\ response.bidding_schedule[i].bid_capacity = 150
          /\ response.bidding_schedule[j].bid_capacity = 50

\* C7: each decision's expected_profit is (bid_price - generation_cost) *
\* bid_capacity of that decision, and the returned total is the sum of the
\* decisions' expected_profit.
C7_ProfitSums ==
    IsSchedule =>
        /\ \A i \in 1..Len(response.bidding_schedule) :
              LET b == response.bidding_schedule[i]
              IN b.expected_profit
                   = (b.bid_price - request.config.generationCost) * b.bid_capacity
        /\ response.expected_profit
             = Sum([i \in 1..Len(response.bidding_schedule) |->
                       response.bidding_schedule[i].expected_profit])

C7_Witness ==
    /\ IsSchedule
    /\ Len(response.bidding_schedule) = MaxPreds
    /\ response.bidding_schedule[1].expected_profit > 0
    /\ response.bidding_schedule[MaxPreds].expected_profit > 0
    /\ response.expected_profit > response.bidding_schedule[1].expected_profit

C9_MissingInputIs400 ==
    /\ (request.op = "predict"
        /\ (\/ ~request.hasConfig
            \/ (request.config.prediction_date = Absent /\ Len(powerMarketData) > 0)))
          => response.status = 400
    /\ (request.op = "optimize"
        /\ (~request.hasPredictions \/ request.config.kind \in {"absent", "noCost"}))
          => response.status = 400

\* the days of a selector
DaysOf(sel) == CASE sel = "1d" -> 1 [] sel = "7d" -> 7 [] sel = "30d" -> 30

\* C10 as claimed: with a selector of 1, 7 or 30 days every returned
\* observation lies in the last so many days before the current time; at most
\* 1000 records are returned; when more pass the filter, the result is the
\* 1000 most recent of them.
C10_LastDaysMostRecent ==
    IsHistory =>
        LET now == request.now
            sel == response.timeRange
            data == response.data
            passed == FilterByRange(powerMarketData, sel, now)
        IN /\ sel \in {"1d", "7d", "30d"} =>
                \A i \in 1..Len(data) :
                    /\ ValidDate(data[i].timestamp)
                    /\ data[i].timestamp.v >= now - DaysOf(sel) * 1440
                    /\ data[i].timestamp.v <= now
           /\ Len(data) <= 1000
           /\ Len(passed) > 1000 =>
                /\ Len(data) = 1000
                /\ \A i \in 1..Len(data) : \E j \in 1..Len(passed) : passed[j] = data[i]
                /\ \A j \in 1..Len(passed) :
                      (\A i \in 1..Len(data) : data[i] # passed[j]) =>
                          \A i \in 1..Len(data) :
                              passed[j].timestamp.v <= data[i].timestamp.v

\* C10 as amended: with a selector of 1, 7 or 30 days every returned
\* observation has a timestamp not earlier than so many days before the
\* current time (later ones, after the current time too, are returned); at
\* most 1000 records are returned; the result is the end of the filtered
\* store, in store order: all of it, or its last 1000 records.
C10_FromStartLastInOrder ==
    IsHistory =>
        LET now == request.now
            sel == response.timeRange
            data == response.data
            start == IF sel \in {"1d", "7d", "30d"} THEN now - DaysOf(sel) * 1440 ELSE 0
            passes(item) == \/ sel = "all"
                            \/ (item.timestamp.k = "num" /\ item.timestamp.v >= start)
            passed == SelectSeq(powerMarketData, passes)
            n == Len(passed)
            skip == IF n > 1000 THEN n - 1000 ELSE 0
        IN /\ Len(data) <= 1000
           /\ \A i \in 1..Len(data) : passes(data[i])
           /\ data = SubSeq(passed, skip + 1, n)

C10_Witness ==
    /\ IsHistory
    /\ response.timeRange = "30d"
    /\ Len(response.data) = 1000
    /\ Len(powerMarketData) > 1000
    /\ response.data[1000] = powerMarketData[Len(powerMarketData)]

\* C11: the risk level of a schedule is "HIGH" if the mean bid price B exceeds
\* 1.10 times the mean predicted price P, otherwise "MEDIUM" if B exceeds
\* 1.05 times P, otherwise "LOW"; one of the three levels is returned.  (The
\* two means are over the same number of periods, so B > c * P is the same
\* comparison of the two sums; over no periods neither comparison holds.)
C11_RiskByMeans ==
    IsSchedule =>
        LET n == Len(response.bidding_schedule)
            sumB == Sum([i \in 1..n |-> response.bidding_schedule[i].bid_price])
            sumP == Sum([i \in 1..Len(request.predictions) |->
                            request.predictions[i].predicted_price])
            high == n > 0 /\ 100 * sumB > 110 * sumP
            medium == n > 0 /\ 100 * sumB > 105 * sumP
        IN /\ response.risk_level \in {"HIGH", "MEDIUM", "LOW"}
           /\ response.risk_level = "HIGH" <=> high
           /\ response.risk_level = "MEDIUM" <=> (~high /\ medium)
           /\ response.risk_level = "LOW" <=> (~high /\ ~medium)

\* a schedule of several periods whose mean bid is above 1.05 and not above
\* 1.10 times the mean predicted price
C11_Witness ==
    /\ IsSchedule
    /\ Len(response.bidding_schedule) = MaxPreds
    /\ response.risk_level = "MEDIUM"
    /\ \E i \in 1..MaxPreds :
          response.bidding_schedule[i].bid_price
              > response.bidding_schedule[i].predicted_price

\* the population standard deviation of a non-empty sequence, rounded down
PopulationStd(xs) ==
    LET n == Len(xs)
        m == Sum(xs) \div n
    IN ISqrt(Sum([i \in 1..n |-> (xs[i] - m) * (xs[i] - m)]) \div n)

\* the hour of the day is in one of the two bands and the day is Monday to
\* Friday, in the local time of the server
InBand(t) ==
    /\ GetHours(t) \in (8..10) \cup (18..20)
    /\ GetDay(t) \in 1..5

\* base_price * time_factor for an instant of a band: the mean price of the
\* last 168 observations times 1.2 (hours 8 to 10) or 1.3 (hours 18 to 20)
BandTarget(t) ==
    LET window == Prices(SliceLast(powerMarketData, 168))
        base == Sum(window) \div Len(window)
    IN (base * (IF GetHours(t) \in 8..10 THEN 1200 ELSE 1300)) \div 1000

Abs(x) == IF x >= 0 THEN x ELSE 0 - x

\* the rounding of the fixed-point arithmetic: two units of 1 / Scale
Rounding == 2

\* C12 as claimed: the predicted price of every forecast point in a band on a
\* weekday differs from base_price * time_factor by at most 0.3 *
\* price_spread.
C12_WithinNoiseOfBase ==
    IsForecast =>
        \A i \in 1..Len(response.predictions) :
            LET p == response.predictions[i]
                spread == PopulationStd(Prices(SliceLast(powerMarketData, 168)))
            IN InBand(p.timestamp) =>
                  10 * Abs(p.predicted_price - BandTarget(p.timestamp))
                      <= 3 * spread + 10 * Rounding

\* C12 as amended: the predicted price of every forecast point in a band on a
\* weekday (hour and day in the local time of the server) differs from
\* max(0, base_price * time_factor) by at most 0.3 * price_spread.
C12_WithinNoiseOfClampedBase ==
    IsForecast =>
        \A i \in 1..Len(response.predictions) :
            LET p == response.predictions[i]
                spread == PopulationStd(Prices(SliceLast(powerMarketData, 168)))
            IN InBand(p.timestamp) =>
                  10 * Abs(p.predicted_price - Max0(BandTarget(p.timestamp)))
                      <= 3 * spread + 10 * Rounding

\* a point of the evening band with a positive base price, moved by the noise
C12_Witness ==
    /\ IsForecast
    /\ \E i \in 1..Len(response.predictions) :
          LET p == response.predictions[i]
          IN /\ InBand(p.timestamp)
             /\ GetHours(p.timestamp) = 20
             /\ BandTarget(p.timestamp) > 0
             /\ Abs(p.predicted_price - BandTarget(p.timestamp)) > Rounding

\* a step in which loadExcelData() runs: the listen callback, or one of the
\* two GET handlers taken with the flag unset
LoadStep == Listen \/ (NeedsLoad(isDataLoaded) /\ (Status \/ Historical))

\* the observations of the workbooks that exist and can be parsed
ReadableObservations ==
    SelectSeq(NormalizeAll(RowsOf("may", fileState, dataset)
                           \o RowsOf("june", fileState, dataset)),
              Retained)

\* C13: a load over one workbook that exists and cannot be parsed and one
\* that can be read ends with the observations of the readable workbook in
\* the store.
C13_UnreadableSourceSkipped ==
    [][(/\ LoadStep
        /\ \E f, g \in Files : fileState[f] = "corrupt" /\ fileState[g] = "ok")
          => powerMarketData' = ReadableObservations]_vars

\* a sheet row has a timestamp under one of the three labels
RowHasTimestamp(row) == Or3(row.ts_zh, row.ts_lc, row.ts_uc).k # "absent"

\* the price of a sheet row parses as a number: the cell the loader reads is
\* a number (a cell holding 0 is passed over by "||" and is a number too)
RowPriceParses(row) ==
    \/ Or3(row.price_zh, row.price_lc, row.price_uc).k = "num"
    \/ N(0) \in {row.price_zh, row.price_lc, row.price_uc}

RowIsObservation(row) == RowHasTimestamp(row) /\ RowPriceParses(row)

\* C14: after a load that runs to its end the store holds exactly the source
\* rows that have a timestamp and a price that parses as a number, in source
\* order: a row whose price does not parse, or without a timestamp, is not
\* retained.
C14_OnlyParseableRowsRetained ==
    [][(LoadStep /\ \A f \in Files : fileState[f] # "corrupt")
          => powerMarketData'
               = NormalizeAll(SelectSeq(RowsOf("may", fileState, dataset)
                                        \o RowsOf("june", fileState, dataset),
                                        RowIsObservation))]_vars

\* C15: a load that fails as a whole (a workbook exists and cannot be parsed)
\* leaves the store and the loaded flag as they were before it started; a
\* load over workbooks that are readable or absent does not fail: it sets
\* the flag and stores the observations of the readable ones.
C15_FailedLoadKeepsStore ==
    [][LoadStep =>
          IF \E f \in Files : fileState[f] = "corrupt"
          THEN powerMarketData' = powerMarketData /\ isDataLoaded' = isDataLoaded
          ELSE isDataLoaded' /\ powerMarketData' = ReadableObservations]_vars

\* a status request whose own load has failed: the flag is still unset and
\* the summary is of the empty store
C15_Witness ==
    /\ listening
    /\ response.op = "status"
    /\ ~isDataLoaded
    /\ response.database.realDataRecords = 0
    /\ powerMarketData = << >>

\* C16: once a load has succeeded no request changes the store or resets the
\* flag; the store is written only in a step that runs loadExcelData(), and
\* a request handler runs it only while the flag is unset.
C16_StoreImmutableOnceLoaded ==
    [][/\ isDataLoaded =>
            (powerMarketData' = powerMarketData /\ isDataLoaded' = isDataLoaded)
       /\ (powerMarketData' # powerMarketData \/ isDataLoaded' # isDataLoaded) =>
            (Listen \/ (~isDataLoaded /\ (Status \/ Historical)))]_vars

\* a historical query answered from a loaded store after both workbooks have
\* been removed: the store was not loaded again
C16_Witness ==
    /\ IsHistory
    /\ isDataLoaded
    /\ Len(powerMarketData) > 0
    /\ response.statistics.total_records > 0
    /\ \A f \in Files : fileState[f] = "absent"
====
